---- MODULE Spec2Model ----
(***************************************************************************)
(* PWC Prep Tool: the application date/rate assignment algorithm           *)
(* (pwct_algo_thread.assign_application_dates with the helpers of          *)
(* pwct_algo_functions), the run expansion that calls it once per          *)
(* combination (generate_batch_file_from_scratch) and the batch file QC    *)
(* (pwct_batchfile_qc.qc_batch_file).                                      *)
(*                                                                         *)
(* Dates are days of the reference year 2021 (1 = 01-01, 365 = 12-31).     *)
(* Amounts and rates are integers in units of 0.001 kg/ha, so the 0.001   *)
(* of check_app_validity is 1 and the 0.002 of the QC is 2; the float      *)
(* rounding of the Python sums is not modelled.  pd.NA / np.inf in a       *)
(* numeric field of the ag practices row is the number Inf, larger than    *)
(* every count and amount the model reaches; pd.NA in a rate identifier,   *)
(* an interval or a flag is the string "NA".                               *)
(***************************************************************************)
EXTENDS Integers, Sequences, FiniteSets, TLC

Inf == 1000000000

YearDays == 365

MaxLoops == 5

PwcMaxApps == 50

AmtTol == 1

APP_AMT_THRESHOLD == 2

NA == "NA"

(* valid_next_date and reverse_assigning are True, False or pd.NA in the    *)
(* code; the model keeps the three values as strings.                      *)
PyTrue == "True"

PyFalse == "False"

PyBool(b) == IF b THEN PyTrue ELSE PyFalse

Intervals == {"PreEmergence", "PostEmergence"}

RateIds == <<"Rate1", "Rate2", "Rate3", "Rate4">>

rows == {"Total", "PreEmergence", "PostEmergence", "Rate1", "Rate2", "Rate3", "Rate4"}

Min2(a, b) == IF a <= b THEN a ELSE b

Abs(x) == IF x < 0 THEN -x ELSE x

\* the element of a one-element set: The({e(x) : x \in {v}}) is e with x bound to v
The(S) == CHOOSE x \in S : TRUE

----------------------------------------------------------------------------
(* The calendar of 2021 (calendar.monthrange(2021, month)) and the        *)
(* conversions between a day of the year and its (month, day) pair.       *)

days_in_month == <<31, 28, 31, 30, 31, 30, 31, 31, 30, 31, 30, 31>>

RECURSIVE DaysBefore(_)
DaysBefore(month) ==
    IF month = 1 THEN 0 ELSE DaysBefore(month - 1) + days_in_month[month - 1]

\* date(year=2021, month=month, day=day)
DateOf(month, day) == DaysBefore(month) + day

\* app_date.month
MonthOf(d) == CHOOSE m \in 1..12 : DaysBefore(m) < d /\ d <= DaysBefore(m) + days_in_month[m]

\* app_date.day
DayOf(d) == d - DaysBefore(MonthOf(d))

(* d is the day number, relative to 2021, of a date the arithmetic left in *)
(* 2020 (d <= 0) or in 2022 (d > 365); the code rebuilds it as             *)
(* date(2021, month, day).  2022 has the calendar of 2021; 2020 is a leap  *)
(* year, so the days after its 02-29 (d >= -305) keep month and day when   *)
(* 365 is added.  The MRIs, PHIs and instruction day counts of the model   *)
(* stay inside that range.                                                *)
FoldYear(d) ==
    IF d > YearDays THEN d - YearDays
    ELSE IF d < 1 THEN d + YearDays
    ELSE d

----------------------------------------------------------------------------
(* The ag practices row of one run.                                        *)

NoInstructions == [form |-> NA, bool_switch |-> NA, event |-> NA, op |-> NA, days |-> 0]

NoRate ==
    [MaxAppRate |-> Inf, MaxNumApps |-> Inf,
     MRI |-> [i \in Intervals |-> Inf], Instructions |-> NoInstructions]

\* pwct_algo_thread 583-591: a rate is valid in the intervals whose MRI is given
ValidIntervals(ag, rate) ==
    LET given(valid) == IF valid = <<>> THEN <<NA>> ELSE valid
    IN given((IF ag.rates[rate].MRI["PreEmergence"] # Inf THEN <<"PreEmergence">> ELSE <<>>)
             \o (IF ag.rates[rate].MRI["PostEmergence"] # Inf THEN <<"PostEmergence">> ELSE <<>>))

InSeq(x, s) == \E k \in 1..Len(s) : s[k] = x

\* derive_instruction_date_restrictions: <<instr_startdate, instr_enddate, instr_timeframe>>
derive_instruction_date_restrictions(rate, ag) ==
    LET window(ins, date_ref) ==
            <<FoldYear(IF ins.op = "-" THEN date_ref - ins.days ELSE date_ref),
              FoldYear(IF ins.op = "-" THEN date_ref ELSE date_ref + ins.days),
              ins.bool_switch>>
    IN IF ag.rates[rate].Instructions.form = NA THEN <<0, 0, NA>>
       ELSE window(ag.rates[rate].Instructions,
                   IF ag.rates[rate].Instructions.event = "E" THEN ag.Emergence ELSE ag.Harvest)

\* the overwinter branch with both boundary dates counted as pre-emergence
get_interval_closed(app_date, ag) ==
    IF ag.Harvest > ag.Emergence
    THEN IF ag.Emergence <= app_date /\ app_date <= ag.Harvest
         THEN "PostEmergence" ELSE "PreEmergence"
    ELSE IF ag.Harvest <= app_date /\ app_date <= ag.Emergence
         THEN "PreEmergence" ELSE "PostEmergence"

\* every date counts as post-emergence
get_interval_post(app_date, ag) == "PostEmergence"

\* get_interval
get_interval(app_date, ag) ==
    IF ag.Harvest > ag.Emergence
    THEN IF ag.Emergence <= app_date /\ app_date <= ag.Harvest
         THEN "PostEmergence" ELSE "PreEmergence"
    ELSE IF ag.Harvest < app_date /\ app_date < ag.Emergence
         THEN "PreEmergence" ELSE "PostEmergence"

\* meets_instruction_constraints
meets_instruction_constraints(app_date, ag, rate) ==
    LET inside(w) ==
            IF w[1] < w[2]
            THEN w[1] <= app_date /\ app_date <= w[2]
            ELSE (1 <= app_date /\ app_date <= w[2]) \/ (w[1] <= app_date /\ app_date <= YearDays)
    IN IF ag.rates[rate].Instructions.form = NA THEN TRUE
       ELSE \E w \in {derive_instruction_date_restrictions(rate, ag)} :
               IF w[3] = "Y" THEN inside(w) ELSE ~inside(w)

\* a gate that never finds an earlier application within the MRI
within_mri_never(new_app, applications, mri) == FALSE

\* a test against the most recent application only
within_mri_last(new_app, applications, mri) ==
    /\ Len(applications) > 0
    /\ Abs(applications[Len(applications)][1] - new_app) < mri

\* within_mri: applications is the list of <<date, rate>> already made
within_mri(new_app, applications, mri) ==
    \E k \in 1..Len(applications) : Abs(applications[k][1] - new_app) < mri

\* a rule that excludes no date
within_phi_never(app_date, appdate_interval, ag) == FALSE

\* within_phi
within_phi(app_date, appdate_interval, ag) ==
    IF appdate_interval = "PreEmergence"
    THEN app_date = ag.Emergence - 1
    ELSE (ag.Harvest - ag.PHI) < app_date /\ app_date <= ag.Harvest

----------------------------------------------------------------------------
(* Rate selection, the validity gate, the amount clamp, the termination    *)
(* check and the date sequencer (pwct_algo_functions).  count is the       *)
(* tracking table of assign_application_dates: rows -> num_apps,           *)
(* amt_applied.                                                            *)

RateExists(ag, rate) == ag.rates[rate].MaxAppRate # Inf

\* a selection that does not look at the limits of a tier's single interval
MaxRateSelectsUnlimited(ag, count, rate) ==
    /\ RateExists(ag, rate)
    /\ count[rate].num_apps < ag.rates[rate].MaxNumApps

\* get_rate, "Max App. Rate" branch, the test that ends the loop at Rate{i} (lines 142-169)
MaxRateSelects(ag, count, rate) ==
    /\ RateExists(ag, rate)
    /\ count[rate].num_apps < ag.rates[rate].MaxNumApps
    /\ \E vi \in {ValidIntervals(ag, rate)} :
          IF Len(vi) = 1
          THEN /\ count[vi[1]].num_apps < ag.MaxNumApps[vi[1]]
               /\ count[vi[1]].amt_applied < ag.MaxAmt[vi[1]]
          ELSE Len(vi) = 2

\* get_rate, wettest month branch, the test that ends the loop at Rate{i} (lines 179-198)
WettestMonthSelects(ag, count, appdate_interval, app_date, rate) ==
    /\ RateExists(ag, rate)
    /\ count[rate].num_apps < ag.rates[rate].MaxNumApps
    /\ InSeq(appdate_interval, ValidIntervals(ag, rate))
    /\ meets_instruction_constraints(app_date, ag, rate)

\* a selection that tries the tiers from Rate4 down to Rate1
get_rate_from_last(ag, count, appdate_interval, settings, app_date) ==
    LET sel(i) == IF settings.DATE_PRIORITIZATION = "Max App. Rate"
                  THEN MaxRateSelects(ag, count, RateIds[i])
                  ELSE WettestMonthSelects(ag, count, appdate_interval, app_date, RateIds[i])
        found(i) == <<RateIds[i], ag.rates[RateIds[i]].MaxAppRate, TRUE>>
    IN IF sel(4) THEN found(4)
       ELSE IF sel(3) THEN found(3)
       ELSE IF sel(2) THEN found(2)
       ELSE IF sel(1) THEN found(1)
       ELSE <<NA, 0, FALSE>>

\* get_rate: <<rate_id, app_rate, valid_app_rate>>
get_rate(ag, count, appdate_interval, settings, app_date) ==
    LET sel(i) == IF settings.DATE_PRIORITIZATION = "Max App. Rate"
                  THEN MaxRateSelects(ag, count, RateIds[i])
                  ELSE WettestMonthSelects(ag, count, appdate_interval, app_date, RateIds[i])
        found(i) == <<RateIds[i], ag.rates[RateIds[i]].MaxAppRate, TRUE>>
    IN IF sel(1) THEN found(1)
       ELSE IF sel(2) THEN found(2)
       ELSE IF sel(3) THEN found(3)
       ELSE IF sel(4) THEN found(4)
       ELSE <<NA, 0, FALSE>>

\* a gate that leaves out the tests of the tier's valid intervals and instructions
check_app_validity_any_tier(app_date, appdate_interval, ag, rate_id, applications, count) ==
    IF rate_id = NA THEN FALSE
    ELSE /\ count[appdate_interval].num_apps + 1 <= ag.MaxNumApps[appdate_interval]
         /\ count[appdate_interval].amt_applied + AmtTol <= ag.MaxAmt[appdate_interval]
         /\ ~within_mri(app_date, applications,
                        IF InSeq(appdate_interval, ValidIntervals(ag, rate_id))
                        THEN ag.rates[rate_id].MRI[appdate_interval] ELSE 0)
         /\ ~within_phi(app_date, appdate_interval, ag)

\* a gate that leaves out the test of the interval's amount
check_app_validity_no_amount(app_date, appdate_interval, ag, rate_id, applications, count) ==
    IF rate_id = NA THEN FALSE
    ELSE /\ InSeq(appdate_interval, ValidIntervals(ag, rate_id))
         /\ count[appdate_interval].num_apps + 1 <= ag.MaxNumApps[appdate_interval]
         /\ meets_instruction_constraints(app_date, ag, rate_id)
         /\ ~within_mri(app_date, applications, ag.rates[rate_id].MRI[appdate_interval])
         /\ ~within_phi(app_date, appdate_interval, ag)

\* a gate that leaves out the two tests of the interval's limits
check_app_validity_uncapped(app_date, appdate_interval, ag, rate_id, applications, count) ==
    IF rate_id = NA THEN FALSE
    ELSE /\ InSeq(appdate_interval, ValidIntervals(ag, rate_id))
         /\ meets_instruction_constraints(app_date, ag, rate_id)
         /\ ~within_mri(app_date, applications, ag.rates[rate_id].MRI[appdate_interval])
         /\ ~within_phi(app_date, appdate_interval, ag)

\* check_app_validity
check_app_validity(app_date, appdate_interval, ag, rate_id, applications, count) ==
    IF rate_id = NA THEN FALSE
    ELSE /\ InSeq(appdate_interval, ValidIntervals(ag, rate_id))
         /\ count[appdate_interval].num_apps + 1 <= ag.MaxNumApps[appdate_interval]
         /\ count[appdate_interval].amt_applied + AmtTol <= ag.MaxAmt[appdate_interval]
         /\ meets_instruction_constraints(app_date, ag, rate_id)
         /\ ~within_mri(app_date, applications, ag.rates[rate_id].MRI[appdate_interval])
         /\ ~within_phi(app_date, appdate_interval, ag)

\* a reduction to the annual headroom only
adjust_app_rate_annual_only(app_rate, appdate_interval, ag, count) ==
    IF app_rate > 0 /\ count["Total"].amt_applied + app_rate > ag.MaxAnnAmt
    THEN ag.MaxAnnAmt - count["Total"].amt_applied
    ELSE app_rate

\* a rate that is never reduced
adjust_app_rate_off(app_rate, appdate_interval, ag, count) == app_rate

\* adjust_app_rate
adjust_app_rate(app_rate, appdate_interval, ag, count) ==
    LET r1 == IF count[appdate_interval].amt_applied + app_rate > ag.MaxAmt[appdate_interval]
              THEN ag.MaxAmt[appdate_interval] - count[appdate_interval].amt_applied
              ELSE app_rate
    IN IF r1 > 0 /\ count["Total"].amt_applied + r1 > ag.MaxAnnAmt
       THEN ag.MaxAnnAmt - count["Total"].amt_applied
       ELSE r1

\* a test that takes a tier without any application for exhausted
all_exhausted_rates_unused(count, ag) ==
    \A i \in 1..4 :
        RateExists(ag, RateIds[i]) =>
            \/ count[RateIds[i]].num_apps = ag.rates[RateIds[i]].MaxNumApps
            \/ count[RateIds[i]].num_apps = 0

\* no_more_apps_can_be_made, lines 437-449: all(exhausted_rates)
all_exhausted_rates(count, ag) ==
    \A i \in 1..4 :
        RateExists(ag, RateIds[i]) => count[RateIds[i]].num_apps = ag.rates[RateIds[i]].MaxNumApps

\* no_more_apps_can_be_made
no_more_apps_can_be_made(count, ag) ==
    \/ count["Total"].num_apps = PwcMaxApps
    \/ count["Total"].num_apps = ag.MaxAnnNumApps
    \/ count["Total"].amt_applied = ag.MaxAnnAmt
    \/ /\ \/ count["PreEmergence"].num_apps = ag.MaxNumApps["PreEmergence"]
          \/ count["PreEmergence"].amt_applied = ag.MaxAmt["PreEmergence"]
       /\ \/ count["PostEmergence"].num_apps = ag.MaxNumApps["PostEmergence"]
          \/ count["PostEmergence"].amt_applied = ag.MaxAmt["PostEmergence"]
    \/ all_exhausted_rates(count, ag)

\* prepare_next_app.get_next_reverse_date; the caller's reverse_assigning is carried along
get_next_reverse_date(current_app_date, mri, ag, applications, count, settings) ==
    LET next_reverse_date == FoldYear(current_app_date - mri)
        next_reverse_interval == get_interval(next_reverse_date, ag)
    IN The({ [app_date |-> next_reverse_date,
              appdate_interval |-> next_reverse_interval,
              valid_next_date |->
                  PyBool(IF r[3]
                         THEN check_app_validity(next_reverse_date, next_reverse_interval, ag,
                                                 r[1], applications, count)
                         ELSE FALSE),
              valid_app_rate |-> r[3],
              rate_id |-> r[1],
              app_rate |-> r[2]] :
             r \in {get_rate(ag, count, next_reverse_interval, settings, next_reverse_date)} })

\* a fallback that steps back from the application just committed
ReverseAnchorLast(current_app_date, start_date) == current_app_date

\* prepare_next_app, the date the forward branch falls back to (line 355)
ReverseAnchor(current_app_date, start_date) == start_date

\* a sequencer that does not look at the flag
InReverseNever(reverse_assigning) == FALSE

\* prepare_next_app, line 308: "if reverse_assigning:"
InReverse(reverse_assigning) == reverse_assigning = PyTrue

\* prepare_next_app
prepare_next_app(current_app_date, current_appdate_interval, current_rate_id, start_date, reverse_assigning, ag, applications, count, settings) ==
    LET mri == ag.rates[current_rate_id].MRI[current_appdate_interval]
        next_forward_date == FoldYear(current_app_date + mri)
        next_forward_interval == get_interval(next_forward_date, ag)
        rev(from) ==
            get_next_reverse_date(from, mri, ag, applications, count, settings)
                @@ [reverse_assigning |-> PyTrue]
        forward(f) ==
            IF f[3]
            THEN IF check_app_validity(next_forward_date, next_forward_interval, ag, f[1],
                                       applications, count)
                 THEN [app_date |-> next_forward_date,
                       appdate_interval |-> next_forward_interval,
                       valid_next_date |-> PyTrue,
                       valid_app_rate |-> TRUE,
                       rate_id |-> f[1],
                       app_rate |-> f[2],
                       reverse_assigning |-> PyFalse]
                 ELSE rev(ReverseAnchor(current_app_date, start_date))
            ELSE [app_date |-> 0,
                  appdate_interval |-> NA,
                  valid_next_date |-> NA,
                  valid_app_rate |-> FALSE,
                  rate_id |-> NA,
                  app_rate |-> 0,
                  reverse_assigning |-> NA]
    IN IF InReverse(reverse_assigning)
       THEN rev(current_app_date)
       ELSE The({ forward(f) :
                  f \in {get_rate(ag, count, next_forward_interval, settings,
                                  next_forward_date)} })

----------------------------------------------------------------------------
(* State.                                                                  *)

VARIABLES
    ag_practices,        \* the run's row of the ag practices table, with Emergence and Harvest
    settings,            \* the run configuration
    potential_app_dates, \* assign_application_dates: the candidate start dates, in stream order
    potential_idx,       \* position of "for potential_date in potential_app_dates"
    loop_count,          \* passes over the stream so far
    count,               \* the tracking table (ledger)
    applications,        \* list of <<date, rate>>, in commit order
    tags,                \* for each entry of applications: <<rate_id, interval>> it was made under
    start_date,          \* first date of the current chain
    app_date,
    appdate_interval,
    rate_id,
    app_rate,
    valid_app_rate,
    valid_start_date,
    valid_next_date,
    reverse_assigning,
    pc,                  \* "huc", "bin", "distance", "transport", "depth", "for", "while",
                         \* "return", "qc", "done", "exit"
    run_no,              \* run_name of the combination being scheduled
    first_run_in_huc,
    store_all_runs,      \* generate_batch_file_from_scratch: the batch rows
    error_max_amt,       \* self._error_max_amt
    storage_table,       \* qc_batch_file: one record of checks per run
    scenario_files,      \* per HUC: the scenario file exists in SCENARIO_FILES_PATH
    bin_to_landsape_params_lookup_table,  \* per bin: the bin has a row in the table
    drift_reduction_table,                \* per bin and distance: the entry is in the table
    huc2,                \* position of "for huc2 in huc2s"
    bin_,                \* position of "for bin_ in bins_"
    distance,            \* position of "for distance in run_distances"
    transport_mechanisms, \* per distance: what get_transport_mechanisms returns for it
    depths,              \* get_app_method_depths_and_tband: the depths of the method
    transport_mech,      \* position of "for transport_mech in transport_mechanisms"
    depth,               \* position of "for depth in depths_used"
    error_scn_file_notexist,  \* self._error_scn_file_notexist
    warnings,            \* logger.warning lines written when a bin or drift profile is skipped
    diagnostics,         \* "Processing run" lines: the combinations handed to the scheduler
    generator            \* the state of the generator shared by the functions of "random"

sched == <<potential_app_dates, potential_idx, loop_count, count, applications, tags, start_date,
           app_date, appdate_interval, rate_id, app_rate, valid_app_rate, valid_start_date,
           valid_next_date, reverse_assigning>>

expander == <<scenario_files, bin_to_landsape_params_lookup_table, drift_reduction_table,
              huc2, bin_, distance, transport_mechanisms, depths, transport_mech, depth,
              error_scn_file_notexist, warnings, diagnostics>>

vars == <<ag_practices, settings, sched, pc, run_no, first_run_in_huc, store_all_runs,
          error_max_amt, storage_table, expander, generator>>

----------------------------------------------------------------------------
(* assign_application_dates.                                               *)

\* get_all_potential_app_dates
RECURSIVE MonthsDates(_)
MonthsDates(months) ==
    IF months = <<>> THEN <<>>
    ELSE [day \in 1..days_in_month[Head(months)] |-> DateOf(Head(months), day)]
            \o MonthsDates(Tail(months))

get_all_potential_app_dates(cfg) ==
    MonthsDates(IF cfg.WETMONTH_PRIORITIZATION THEN cfg.wettest_months
                ELSE <<1, 2, 3, 4, 5, 6, 7, 8, 9, 10, 11, 12>>)

\* the generator of "random" as a congruential generator on RngMod states: the state a seed
\* sets, the state after a draw, and the integer of 1..n a draw returns
RngMod == 8

seed(a) == IF a = "1" THEN 3 ELSE 6

advance(g) == (g * 5 + 1) % RngMod

randint(g, n) == 1 + ((g * 7 + 3) % n)

\* get_start_date that never seeds the generator
get_start_date_unseeded(potential_date, cfg, g) ==
    IF cfg.RANDOM_START_DATES
    THEN <<DateOf(MonthOf(potential_date), randint(g, days_in_month[MonthOf(potential_date)])),
           advance(g)>>
    ELSE <<potential_date, g>>

\* lines 1014-1036: with RANDOM_START_DATES a day of the candidate's month drawn from the
\* generator, which is seeded before the draw when RANDOM_SEED is not blank; the result is
\* <<start date, state of the generator afterwards>>
get_start_date(potential_date, cfg, g) ==
    IF cfg.RANDOM_START_DATES
    THEN The({<<DateOf(MonthOf(potential_date),
                       randint(s, days_in_month[MonthOf(potential_date)])),
                advance(s)>> : s \in {IF cfg.RANDOM_SEED # "" THEN seed(cfg.RANDOM_SEED) ELSE g}})
    ELSE <<potential_date, g>>

\* a ledger that is carried over from the previous invocation
KeptCount == count

\* line 870: count = pd.DataFrame(0.0, index=rows, columns=cols)
NewCount == [r \in rows |-> [num_apps |-> 0, amt_applied |-> 0]]

\* line 873: applications = []
NewApplications == <<>>

\* the while condition without its two annual tests (lines 906-908 dropped)
WhileCondNoAnnual(vsd, var, vnd, ar, rid, cnt, ag) ==
    /\ vsd
    /\ var
    /\ vnd = PyTrue
    /\ ar > 0
    /\ cnt[rid].num_apps + 1 <= ag.rates[rid].MaxNumApps

\* lines 901-909: the condition of the inner while loop
WhileCond(vsd, var, vnd, ar, rid, cnt, ag) ==
    /\ vsd
    /\ var
    /\ vnd = PyTrue
    /\ ar > 0
    /\ cnt[rid].num_apps + 1 <= ag.rates[rid].MaxNumApps
    /\ cnt["Total"].num_apps + 1 <= ag.MaxAnnNumApps
    /\ cnt["Total"].amt_applied + ar <= ag.MaxAnnAmt

\* a commit that leaves the Total row alone
CommittedNoTotal(cnt, rid, iv, ar) ==
    [r \in rows |->
        IF r \in {rid, iv}
        THEN [num_apps |-> cnt[r].num_apps + 1, amt_applied |-> cnt[r].amt_applied + ar]
        ELSE cnt[r]]

\* lines 912-917: the ledger after one application of ar under rid in interval iv
Committed(cnt, rid, iv, ar) ==
    [r \in rows |->
        IF r \in {rid, iv, "Total"}
        THEN [num_apps |-> cnt[r].num_apps + 1, amt_applied |-> cnt[r].amt_applied + ar]
        ELSE cnt[r]]

\* lines 942-948: after the inner loop, with the ledger cnt
AfterWhile(cnt) ==
    IF no_more_apps_can_be_made(cnt, ag_practices)
    THEN /\ loop_count' = loop_count + 1
         /\ potential_idx' = potential_idx
         /\ pc' = "return"
    ELSE /\ loop_count' = loop_count
         /\ potential_idx' = potential_idx + 1
         /\ pc' = "for"

\* lines 867-881: the locals at the start of an invocation
StartInvocation ==
    /\ count' = NewCount
    /\ applications' = NewApplications
    /\ tags' = <<>>
    /\ potential_app_dates' = get_all_potential_app_dates(settings)
    /\ loop_count' = 0
    /\ potential_idx' = 1
    /\ start_date' = 0
    /\ app_date' = 0
    /\ appdate_interval' = NA
    /\ rate_id' = NA
    /\ app_rate' = 0
    /\ valid_app_rate' = FALSE
    /\ valid_start_date' = FALSE
    /\ valid_next_date' = PyTrue
    /\ reverse_assigning' = PyFalse

\* lines 883-898 and the first test of the while condition: the next candidate of the stream
\* either opens a chain (pc = "while") or is passed over (lines 942-944)
NextCandidate ==
    /\ pc = "for"
    /\ potential_idx <= Len(potential_app_dates)
    /\ \E sdg \in {get_start_date(potential_app_dates[potential_idx], settings, generator)} :
       \E sd \in {sdg[1]} :
       \E iv \in {get_interval(sd, ag_practices)} :
       \E r \in {get_rate(ag_practices, count, iv, settings, sd)} :
       \E vsd \in {check_app_validity(sd, iv, ag_practices, r[1], applications, count)} :
       \E ar \in {IF r[3] THEN adjust_app_rate(r[2], iv, ag_practices, count) ELSE r[2]} :
          /\ start_date' = sd
          /\ generator' = sdg[2]
          /\ app_date' = sd
          /\ appdate_interval' = iv
          /\ rate_id' = r[1]
          /\ app_rate' = ar
          /\ valid_app_rate' = r[3]
          /\ valid_start_date' = vsd
          /\ reverse_assigning' = PyFalse
          /\ valid_next_date' = PyTrue
          /\ IF WhileCond(vsd, r[3], PyTrue, ar, r[1], count, ag_practices)
             THEN /\ pc' = "while"
                  /\ UNCHANGED <<potential_idx, loop_count>>
             ELSE AfterWhile(count)
    /\ UNCHANGED <<ag_practices, settings, potential_app_dates, count, applications, tags,
                   run_no, first_run_in_huc, store_all_runs, error_max_amt, storage_table,
                   expander>>

\* lines 910-940: one pass of the body of the while loop
Commit ==
    /\ pc = "while"
    /\ WhileCond(valid_start_date, valid_app_rate, valid_next_date, app_rate, rate_id, count,
                 ag_practices)
    /\ \E apps \in {Append(applications, <<app_date, app_rate>>)} :
       \E cnt \in {Committed(count, rate_id, appdate_interval, app_rate)} :
       \E n \in {prepare_next_app(app_date, appdate_interval, rate_id, start_date,
                                  reverse_assigning, ag_practices, apps, cnt, settings)} :
          /\ applications' = apps
          /\ tags' = Append(tags, <<rate_id, appdate_interval>>)
          /\ count' = cnt
          /\ app_date' = n.app_date
          /\ appdate_interval' = n.appdate_interval
          /\ valid_next_date' = n.valid_next_date
          /\ valid_app_rate' = n.valid_app_rate
          /\ rate_id' = n.rate_id
          /\ reverse_assigning' = n.reverse_assigning
          /\ app_rate' = IF n.valid_app_rate
                         THEN adjust_app_rate(n.app_rate, n.appdate_interval, ag_practices, cnt)
                         ELSE n.app_rate
    /\ UNCHANGED <<ag_practices, settings, potential_app_dates, potential_idx, loop_count,
                   start_date, valid_start_date, pc, run_no, first_run_in_huc, store_all_runs,
                   error_max_amt, storage_table,
                   expander, generator>>

\* the while condition fails after at least one application: lines 942-944
ChainEnd ==
    /\ pc = "while"
    /\ ~WhileCond(valid_start_date, valid_app_rate, valid_next_date, app_rate, rate_id, count,
                  ag_practices)
    /\ AfterWhile(count)
    /\ UNCHANGED <<ag_practices, settings, potential_app_dates, count, applications, tags,
                   start_date, app_date, appdate_interval, rate_id, app_rate, valid_app_rate,
                   valid_start_date, valid_next_date, reverse_assigning, run_no,
                   first_run_in_huc, store_all_runs, error_max_amt, storage_table,
                   expander, generator>>

\* a replay of the stream that forgets to count the pass
PassEndNoCount ==
    /\ pc = "for"
    /\ potential_idx > Len(potential_app_dates)
    /\ potential_idx' = 1
    /\ UNCHANGED <<ag_practices, settings, potential_app_dates, loop_count, pc, count,
                   applications, tags, start_date, app_date, appdate_interval, rate_id, app_rate,
                   valid_app_rate, valid_start_date, valid_next_date, reverse_assigning, run_no,
                   first_run_in_huc, store_all_runs, error_max_amt, storage_table,
                   expander, generator>>

\* lines 946-948: the stream is exhausted without a break
PassEnd ==
    /\ pc = "for"
    /\ potential_idx > Len(potential_app_dates)
    /\ loop_count' = loop_count + 1
    /\ IF loop_count + 1 = MaxLoops
       THEN pc' = "return" /\ potential_idx' = potential_idx
       ELSE pc' = "for" /\ potential_idx' = 1
    /\ UNCHANGED <<ag_practices, settings, potential_app_dates, count, applications, tags,
                   start_date, app_date, appdate_interval, rate_id, app_rate, valid_app_rate,
                   valid_start_date, valid_next_date, reverse_assigning, run_no,
                   first_run_in_huc, store_all_runs, error_max_amt, storage_table,
                   expander, generator>>

----------------------------------------------------------------------------
(* generate_batch_file_from_scratch: the combinations of one HUC, each     *)
(* scheduled by its own call of assign_application_dates and stored as one *)
(* batch row.                                                              *)

NumCombos == 2

WarnTol == 10

\* lines 747-769: methods 1 and 2 have no depth, the others the depths selected for them
get_app_method_depths(application_method, selected) ==
    IF application_method \in {1, 2} THEN <<"no">> ELSE selected

\* lines 818-835: runoff only without drift, for the foliar method drift only where selected
\* and then runoff and drift, for every other method runoff and drift
get_transport_mechanisms(application_method, drift_profile, drift_only) ==
    IF drift_profile = "G-NODRIFT"
    THEN <<"R">>
    ELSE IF application_method = 2
    THEN (IF drift_only THEN <<"D">> ELSE <<>>) \o <<"RD">>
    ELSE <<"RD">>

\* lines 625-630: a drift only run is made at the one depth of method 4
depths_used(mech, method_depths) == IF mech = "D" THEN <<"8">> ELSE method_depths

\* lines 670-688: the fields of the batch row the QC reads, with the combination it is for
BatchRow(run, apps) ==
    [RunName |-> run,
     HUC2 |-> huc2,
     AquaticBin |-> bin_,
     Distance |-> distance,
     TransportMech |-> transport_mechanisms[distance][transport_mech],
     Depth |-> depths_used(transport_mechanisms[distance][transport_mech], depths)[depth],
     NumberofApplications |-> Len(apps),
     Day |-> [k \in 1..Len(apps) |-> DayOf(apps[k][1])],
     Month |-> [k \in 1..Len(apps) |-> MonthOf(apps[k][1])],
     AppRate |-> [k \in 1..Len(apps) |-> apps[k][2]]]

\* lines 555-567 and 700-735: one step of "for huc2 in huc2s"; a HUC without scenario file is
\* tagged and passed over, and after the last HUC the batch is written and the QC starts
HucLoop ==
    /\ pc = "huc"
    /\ IF huc2 > Len(scenario_files)
       THEN /\ pc' = "qc"
            /\ UNCHANGED <<huc2, bin_, error_scn_file_notexist, first_run_in_huc>>
       ELSE IF ~scenario_files[huc2]
       THEN /\ error_scn_file_notexist' = Append(error_scn_file_notexist, huc2)
            /\ huc2' = huc2 + 1
            /\ UNCHANGED <<pc, bin_, first_run_in_huc>>
       ELSE /\ first_run_in_huc' = TRUE
            /\ bin_' = 1
            /\ pc' = "bin"
            /\ UNCHANGED <<huc2, error_scn_file_notexist>>
    /\ UNCHANGED <<ag_practices, settings, sched, run_no, store_all_runs, error_max_amt,
                   storage_table, scenario_files, bin_to_landsape_params_lookup_table,
                   drift_reduction_table, distance, transport_mechanisms, depths,
                   transport_mech, depth, warnings, diagnostics,
                   generator>>

\* lines 600-608: one step of "for bin_ in bins_"; a bin without landscape parameters is
\* logged and passed over
BinLoop ==
    /\ pc = "bin"
    /\ IF bin_ > Len(bin_to_landsape_params_lookup_table)
       THEN /\ huc2' = huc2 + 1
            /\ pc' = "huc"
            /\ UNCHANGED <<bin_, distance, warnings>>
       ELSE IF ~bin_to_landsape_params_lookup_table[bin_]
       THEN /\ warnings' = Append(warnings, <<"bin", huc2, bin_>>)
            /\ bin_' = bin_ + 1
            /\ UNCHANGED <<pc, huc2, distance>>
       ELSE /\ distance' = 1
            /\ pc' = "distance"
            /\ UNCHANGED <<huc2, bin_, warnings>>
    /\ UNCHANGED <<ag_practices, settings, sched, run_no, first_run_in_huc, store_all_runs,
                   error_max_amt, storage_table, scenario_files,
                   bin_to_landsape_params_lookup_table, drift_reduction_table,
                   transport_mechanisms, depths, transport_mech, depth,
                   error_scn_file_notexist, diagnostics,
                   generator>>

\* lines 610-623: one step of "for distance in run_distances"; a drift profile without entry
\* is logged and passed over, for any other the transport mechanisms are looked up
DistanceLoop ==
    /\ pc = "distance"
    /\ IF distance > Len(drift_reduction_table[bin_])
       THEN /\ bin_' = bin_ + 1
            /\ pc' = "bin"
            /\ UNCHANGED <<distance, warnings, transport_mech>>
       ELSE IF ~drift_reduction_table[bin_][distance]
       THEN /\ warnings' = Append(warnings, <<"drift profile", huc2, bin_, distance>>)
            /\ distance' = distance + 1
            /\ UNCHANGED <<pc, bin_, transport_mech>>
       ELSE /\ transport_mech' = 1
            /\ pc' = "transport"
            /\ UNCHANGED <<bin_, distance, warnings>>
    /\ UNCHANGED <<ag_practices, settings, sched, run_no, first_run_in_huc, store_all_runs,
                   error_max_amt, storage_table, scenario_files,
                   bin_to_landsape_params_lookup_table, drift_reduction_table, huc2,
                   transport_mechanisms, depths, depth, error_scn_file_notexist, diagnostics,
                   generator>>

\* lines 624-631: one step of "for transport_mech in transport_mechanisms"
TransportLoop ==
    /\ pc = "transport"
    /\ IF transport_mech > Len(transport_mechanisms[distance])
       THEN /\ distance' = distance + 1
            /\ pc' = "distance"
            /\ UNCHANGED depth
       ELSE /\ depth' = 1
            /\ pc' = "depth"
            /\ UNCHANGED distance
    /\ UNCHANGED <<ag_practices, settings, sched, run_no, first_run_in_huc, store_all_runs,
                   error_max_amt, storage_table, scenario_files,
                   bin_to_landsape_params_lookup_table, drift_reduction_table, huc2, bin_,
                   transport_mechanisms, depths, transport_mech, error_scn_file_notexist,
                   warnings, diagnostics,
                   generator>>

\* lines 632-668: one step of "for depth in depths_used"; the combination is named and handed
\* to the scheduler
DepthLoop ==
    /\ pc = "depth"
    /\ IF depth > Len(depths_used(transport_mechanisms[distance][transport_mech], depths))
       THEN /\ transport_mech' = transport_mech + 1
            /\ pc' = "transport"
            /\ UNCHANGED <<diagnostics, run_no, sched>>
       ELSE /\ run_no' = Len(store_all_runs) + 1
            /\ diagnostics' =
                  Append(diagnostics, <<huc2, bin_, distance, transport_mech, depth>>)
            /\ StartInvocation
            /\ pc' = "for"
            /\ UNCHANGED transport_mech
    /\ UNCHANGED <<ag_practices, settings, first_run_in_huc, store_all_runs, error_max_amt,
                   storage_table, scenario_files, bin_to_landsape_params_lookup_table,
                   drift_reduction_table, huc2, bin_, distance, transport_mechanisms, depths,
                   depth, error_scn_file_notexist, warnings,
                   generator>>

\* the row of the invocation written over the last stored row
StoreRunOverwrite ==
    /\ pc = "return"
    /\ store_all_runs' =
          IF store_all_runs = <<>>
          THEN <<BatchRow(run_no, applications)>>
          ELSE [store_all_runs EXCEPT ![Len(store_all_runs)] = BatchRow(run_no, applications)]
    /\ first_run_in_huc' = FALSE
    /\ depth' = depth + 1
    /\ pc' = "depth"
    /\ UNCHANGED <<ag_practices, settings, sched, run_no, error_max_amt, storage_table,
                   scenario_files, bin_to_landsape_params_lookup_table, drift_reduction_table,
                   huc2, bin_, distance, transport_mechanisms, depths, transport_mech,
                   error_scn_file_notexist, warnings, diagnostics,
                   generator>>

\* lines 949-981 and 670-693: the invocation returns, its row is stored, and the loop over
\* the depths goes on
StoreRun ==
    /\ pc = "return"
    /\ error_max_amt' =
          IF first_run_in_huc /\ count["Total"].amt_applied + WarnTol < ag_practices.MaxAnnAmt
          THEN Append(error_max_amt, run_no)
          ELSE error_max_amt
    /\ store_all_runs' = Append(store_all_runs, BatchRow(run_no, applications))
    /\ first_run_in_huc' = FALSE
    /\ depth' = depth + 1
    /\ pc' = "depth"
    /\ UNCHANGED <<ag_practices, settings, sched, run_no, storage_table, scenario_files,
                   bin_to_landsape_params_lookup_table, drift_reduction_table, huc2, bin_,
                   distance, transport_mechanisms, depths, transport_mech,
                   error_scn_file_notexist, warnings, diagnostics,
                   generator>>

----------------------------------------------------------------------------
(* qc_batch_file.                                                          *)

\* list.sort(): the element at position p is the one with p - 1 elements before it in
\* the stable ascending order
Sorted(s) ==
    LET before(i) == {j \in 1..Len(s) : s[j] < s[i] \/ (s[j] = s[i] /\ j < i)}
    IN [p \in 1..Len(s) |-> s[CHOOSE i \in 1..Len(s) : Cardinality(before(i)) = p - 1]]

\* sum(), by halves
RECURSIVE SumSeq(_)
SumSeq(s) ==
    LET sum(v) ==
            IF Len(v) = 0 THEN 0
            ELSE IF Len(v) = 1 THEN v[1]
            ELSE SumSeq(SubSeq(v, 1, Len(v) \div 2))
                    + SumSeq(SubSeq(v, Len(v) \div 2 + 1, Len(v)))
    IN The({ sum(v) : v \in {s} })

\* prepare_apt.set_up_interval_fields: an unspecified interval limit becomes the annual
\* limit when some rate has an MRI for the interval, and zero otherwise
PreparedLimit(ag, interval, given, annual) ==
    IF given # Inf THEN given
    ELSE IF \E i \in 1..4 : ag.rates[RateIds[i]].MRI[interval] # Inf THEN annual
    ELSE 0

\* lines 323-332: the dates of the row, sorted, and its rates in column order
QcAppDates(run) ==
    The({ Sorted(app_dates) :
          app_dates \in {[k \in 1..Len(run.Day) |-> DateOf(run.Month[k], run.Day[k])]} })

\* lines 345-364: the interval the loop counts the k-th (date, rate) pair under
QcInterval(d, emergence_date, harvest_date) ==
    IF emergence_date < harvest_date
    THEN IF emergence_date <= d /\ d <= harvest_date
         THEN "PostEmergence" ELSE "PreEmergence"
    ELSE IF harvest_date < d /\ d < emergence_date
         THEN "PreEmergence" ELSE "PostEmergence"

\* lines 349: zip(app_dates, app_rates)
QcPairs(app_dates, app_rates) ==
    [k \in 1..Min2(Len(app_dates), Len(app_rates)) |-> <<app_dates[k], app_rates[k]>>]

\* lines 345-364: num_apps_pre and num_apps_post of the loop over the pairs
QcNumApps(pairs, iv, emergence_date, harvest_date) ==
    Cardinality({k \in 1..Len(pairs) : QcInterval(pairs[k][1], emergence_date, harvest_date) = iv})

\* lines 345-364: sum_app_rates_pre and sum_app_rates_post of the loop over the pairs
QcSumAppRates(pairs, iv, emergence_date, harvest_date) ==
    SumSeq([k \in 1..Len(pairs) |->
               IF QcInterval(pairs[k][1], emergence_date, harvest_date) = iv
               THEN pairs[k][2] ELSE 0])

\* lines 366-491: the checks of one run of the batch file
QcChecks(run, ag, app_rates, app_dates, pairs) ==
    LET num_apps(iv) == QcNumApps(pairs, iv, ag.Emergence, ag.Harvest)
        sum_app_rates(iv) == QcSumAppRates(pairs, iv, ag.Emergence, ag.Harvest)
        modeled_mris == [i \in 1..(Len(app_dates) - 1) |-> app_dates[i + 1] - app_dates[i]]
        label_mri == IF ag.rates["Rate1"].MRI["PreEmergence"] # Inf
                     THEN ag.rates["Rate1"].MRI["PreEmergence"]
                     ELSE ag.rates["Rate1"].MRI["PostEmergence"]
        pre_harv_int_end == ag.Harvest
        pre_harv_int_start == pre_harv_int_end - ag.PHI
        maxN(iv) == PreparedLimit(ag, iv, ag.MaxNumApps[iv], ag.MaxAnnNumApps)
        maxA(iv) == PreparedLimit(ag, iv, ag.MaxAmt[iv], ag.MaxAnnAmt)
    IN [RunName |-> run.RunName,
        Check_Ann_NumApps_NotExceeded |-> Len(app_dates) <= ag.MaxAnnNumApps,
        Check_Ann_Amt_NotExceeded |-> SumSeq(app_rates) <= ag.MaxAnnAmt + APP_AMT_THRESHOLD,
        Check_PreE_NumApps_NotExceeded |-> num_apps("PreEmergence") <= maxN("PreEmergence"),
        Check_PreE_Amt_NotExceeded |->
            sum_app_rates("PreEmergence") <= maxA("PreEmergence") + APP_AMT_THRESHOLD,
        Check_PostE_NumApps_NotExceeded |-> num_apps("PostEmergence") <= maxN("PostEmergence"),
        Check_PostE_Amt_NotExceeded |->
            sum_app_rates("PostEmergence") <= maxA("PostEmergence") + APP_AMT_THRESHOLD,
        Check_MRI_NotWithin |-> \A i \in 1..Len(modeled_mris) : modeled_mris[i] >= label_mri,
        Check_NoDuplicate_AppDates |->
            \A i, j \in 1..Len(app_dates) : i # j => app_dates[i] # app_dates[j],
        Check_PreHarvInt_NotWithin |->
            \A i \in 1..Len(app_dates) :
                ~(pre_harv_int_start < app_dates[i] /\ app_dates[i] <= pre_harv_int_end),
        Check_NumAppsField_IsCorrect |-> Len(app_dates) = run.NumberofApplications]

\* lines 311-364: the rates, the sorted dates and their pairing
QcRun(run, ag) ==
    The({ The({ QcChecks(run, ag, run.AppRate, app_dates, pairs) :
                pairs \in {QcPairs(app_dates, run.AppRate)} }) :
          app_dates \in {QcAppDates(run)} })

\* lines 468-472: the start of the pre-harvest interval lies in the previous year
PhiStartsInPreviousYear(ag) == ag.Harvest - ag.PHI < 1

\* one iteration of "for _, run in pwc_batch_file.iterrows()" over the generated batch
QcNextRun ==
    /\ pc = "qc"
    /\ Len(storage_table) < Len(store_all_runs)
    /\ ~PhiStartsInPreviousYear(ag_practices)
    /\ storage_table' =
          Append(storage_table, QcRun(store_all_runs[Len(storage_table) + 1], ag_practices))
    /\ UNCHANGED <<ag_practices, settings, sched, pc, run_no, first_run_in_huc, store_all_runs,
                   error_max_amt, expander, generator>>

\* lines 470-472: sys.exit() in the middle of a run, no record and no return
QcExit ==
    /\ pc = "qc"
    /\ Len(storage_table) < Len(store_all_runs)
    /\ PhiStartsInPreviousYear(ag_practices)
    /\ pc' = "exit"
    /\ UNCHANGED <<ag_practices, settings, sched, run_no, first_run_in_huc, store_all_runs,
                   error_max_amt, storage_table,
                   expander, generator>>

\* line 493: return storage_table
QcReturn ==
    /\ pc = "qc"
    /\ Len(storage_table) = Len(store_all_runs)
    /\ pc' = "done"
    /\ UNCHANGED <<ag_practices, settings, sched, run_no, first_run_in_huc, store_all_runs,
                   error_max_amt, storage_table,
                   expander, generator>>

----------------------------------------------------------------------------
(* The ag practices rows and run configurations the model is run on.       *)

Rate(max_app_rate, max_num_apps, pre_mri, post_mri, instructions) ==
    [MaxAppRate |-> max_app_rate, MaxNumApps |-> max_num_apps,
     MRI |-> [PreEmergence |-> pre_mri, PostEmergence |-> post_mri],
     Instructions |-> instructions]

Instr(bool_switch, event, op, days) ==
    [form |-> "single", bool_switch |-> bool_switch, event |-> event, op |-> op, days |-> days]

Label(emergence, harvest, ann_num, ann_amt, pre_num, pre_amt, post_num, post_amt, phi, r1, r2) ==
    [Emergence |-> emergence, Harvest |-> harvest,
     MaxAnnNumApps |-> ann_num, MaxAnnAmt |-> ann_amt,
     MaxNumApps |-> [PreEmergence |-> pre_num, PostEmergence |-> post_num],
     MaxAmt |-> [PreEmergence |-> pre_amt, PostEmergence |-> post_amt],
     PHI |-> phi,
     rates |-> [Rate1 |-> r1, Rate2 |-> r2, Rate3 |-> NoRate, Rate4 |-> NoRate]]

\* sequential candidates, prioritized by max app rate
Sequential ==
    [DATE_PRIORITIZATION |-> "Max App. Rate", WETMONTH_PRIORITIZATION |-> FALSE,
     RANDOM_START_DATES |-> FALSE, RANDOM_SEED |-> "", wettest_months |-> <<>>]

\* candidates of the ranked wettest months of the HUC
Wettest(date_prioritization, months) ==
    [DATE_PRIORITIZATION |-> date_prioritization, WETMONTH_PRIORITIZATION |-> TRUE,
     RANDOM_START_DATES |-> FALSE, RANDOM_SEED |-> "", wettest_months |-> months]

Scenario(ag, cfg) == [ag |-> ag, settings |-> cfg]

\* tier 1 only, valid post-emergence only, no instructions, PHI 0, sequential candidates
PostOnlyScenarios ==
    { Scenario(Label(eh[1], eh[2], n, a, Inf, Inf, Inf, pa, 0,
                     Rate(2000, 3, Inf, m, NoInstructions), NoRate), Sequential) :
        eh \in {<<121, 244>>, <<300, 60>>}, n \in {2, 3}, a \in {5000, 6000},
        pa \in {Inf, 4500}, m \in {7, 14} }
    \cup
    { Scenario(Label(8, 20, 3, 6000, Inf, Inf, Inf, Inf, 0,
                     Rate(2000, 3, Inf, 7, NoInstructions), NoRate), Sequential) }

\* two tiers, short seasons, candidates of one or two ranked months
WetScenarios ==
    { Scenario(Label(eh[1], eh[2], 4, a, Inf, pa, Inf, Inf, 5, r1, r2), Wettest(dp, <<2, 1>>)) :
        eh \in {<<40, 52>>, <<52, 40>>}, a \in {5000, 6000}, pa \in {Inf, 1000},
        r1 \in {Rate(2000, 2, 7, 7, NoInstructions),
                Rate(2000, 3, Inf, 7, NoInstructions),
                Rate(1500, 2, 14, 7, Instr("Y", "E", "-", 10))},
        r2 \in {NoRate, Rate(1000, 2, 7, Inf, NoInstructions)},
        dp \in {"Max App. Rate", "Wettest Month"} }

SpecialScenarios ==
    { \* daily applications, more than 50 allowed by every cap
      Scenario(Label(121, 244, 60, 100000, Inf, Inf, Inf, Inf, 0,
                     Rate(1000, 60, 1, 1, NoInstructions), NoRate), Sequential),
      \* different pre- and post-emergence MRI of one tier
      Scenario(Label(8, 20, 4, 10000, 2, Inf, Inf, Inf, 0,
                     Rate(2000, 10, 14, 7, NoInstructions), NoRate), Sequential),
      \* a chain that turns to reverse assignment into a capped pre-emergence interval
      Scenario(Label(32, 50, 3, 10000, Inf, 1000, Inf, Inf, 7,
                     Rate(2000, 5, 7, 7, NoInstructions), NoRate),
               Wettest("Max App. Rate", <<2>>)),
      \* a PHI longer than the time from emergence to harvest
      Scenario(Label(40, 50, 2, 10000, Inf, Inf, Inf, Inf, 20,
                     Rate(2000, 5, 7, 7, NoInstructions), NoRate),
               Wettest("Max App. Rate", <<2>>)),
      \* a PHI that reaches back into the previous year
      Scenario(Label(8, 20, 2, 4000, Inf, Inf, Inf, Inf, 30,
                     Rate(2000, 2, 7, 7, NoInstructions), NoRate),
               Wettest("Max App. Rate", <<2>>)),
      \* tier 1 valid pre-emergence only, in an interval limited to one application; tier 2
      \* valid in both intervals
      Scenario(Label(40, 52, 3, 6000, 1, Inf, Inf, Inf, 0,
                     Rate(2000, 2, 7, Inf, NoInstructions), Rate(1000, 2, 7, 7, NoInstructions)),
               Wettest("Max App. Rate", <<2>>)),
      \* no candidate is ever valid: the instruction window excludes the whole post-emergence time
      Scenario(Label(8, 20, 3, 6000, 0, Inf, Inf, Inf, 0,
                     Rate(2000, 3, Inf, 7, Instr("N", "E", "+", 30)), NoRate),
               Wettest("Max App. Rate", <<1>>)) }

Scenarios == PostOnlyScenarios \cup WetScenarios \cup SpecialScenarios

----------------------------------------------------------------------------
(* The specification.                                                      *)

\* the loops of the generation before their first step
ExpanderInit ==
    /\ huc2 = 1
    /\ bin_ = 0
    /\ distance = 0
    /\ transport_mech = 0
    /\ depth = 0
    /\ error_scn_file_notexist = <<>>
    /\ warnings = <<>>
    /\ diagnostics = <<>>

Init ==
    /\ \E sc \in Scenarios :
          /\ ag_practices = sc.ag
          /\ settings = sc.settings
          /\ potential_app_dates = get_all_potential_app_dates(sc.settings)
    /\ count = [r \in rows |-> [num_apps |-> 0, amt_applied |-> 0]]
    /\ applications = <<>>
    /\ tags = <<>>
    /\ loop_count = 0
    /\ potential_idx = 1
    /\ start_date = 0
    /\ app_date = 0
    /\ appdate_interval = NA
    /\ rate_id = NA
    /\ app_rate = 0
    /\ valid_app_rate = FALSE
    /\ valid_start_date = FALSE
    /\ valid_next_date = PyTrue
    /\ reverse_assigning = PyFalse
    /\ pc = "huc"
    /\ run_no = 0
    /\ first_run_in_huc = TRUE
    /\ store_all_runs = <<>>
    /\ error_max_amt = <<>>
    /\ storage_table = <<>>
    /\ scenario_files = <<TRUE>>
    /\ bin_to_landsape_params_lookup_table = <<TRUE>>
    /\ drift_reduction_table = <<[d \in 1..NumCombos |-> TRUE]>>
    /\ transport_mechanisms = [d \in 1..NumCombos |-> get_transport_mechanisms(1, "A", FALSE)]
    /\ depths = get_app_method_depths(1, <<>>)
    /\ ExpanderInit
    /\ generator = 0

Next ==
    \/ HucLoop
    \/ BinLoop
    \/ DistanceLoop
    \/ TransportLoop
    \/ DepthLoop
    \/ NextCandidate
    \/ Commit
    \/ ChainEnd
    \/ PassEnd
    \/ StoreRun
    \/ QcNextRun
    \/ QcExit
    \/ QcReturn

Spec == Init /\ [][Next]_vars

\* the thread runs each loop to its end: no step is postponed forever
FairSpec == Spec /\ WF_vars(Next)

----------------------------------------------------------------------------
(* get_interval on its own: every date of the year is classified for       *)
(* emergence and harvest dates drawn from ClassifyDays, harvest before, on  *)
(* and after emergence.                                                    *)

ClassifyDays == {1, 59, 60, 121, 244, 300, 365}

ClassifyInit ==
    /\ \E e \in ClassifyDays, h \in ClassifyDays :
          ag_practices = Label(e, h, 3, 6000, Inf, Inf, Inf, Inf, 0,
                               Rate(2000, 3, 7, 7, NoInstructions), NoRate)
    /\ settings = Sequential
    /\ potential_app_dates = get_all_potential_app_dates(Sequential)
    /\ count = [r \in rows |-> [num_apps |-> 0, amt_applied |-> 0]]
    /\ applications = <<>>
    /\ tags = <<>>
    /\ loop_count = 0
    /\ potential_idx = 1
    /\ start_date = 0
    /\ app_date = 1
    /\ appdate_interval = get_interval(1, ag_practices)
    /\ rate_id = NA
    /\ app_rate = 0
    /\ valid_app_rate = FALSE
    /\ valid_start_date = FALSE
    /\ valid_next_date = PyTrue
    /\ reverse_assigning = PyFalse
    /\ pc = "classify"
    /\ run_no = 0
    /\ first_run_in_huc = TRUE
    /\ store_all_runs = <<>>
    /\ error_max_amt = <<>>
    /\ storage_table = <<>>
    /\ scenario_files = <<TRUE>>
    /\ bin_to_landsape_params_lookup_table = <<TRUE>>
    /\ drift_reduction_table = <<[d \in 1..NumCombos |-> TRUE]>>
    /\ transport_mechanisms = [d \in 1..NumCombos |-> get_transport_mechanisms(1, "A", FALSE)]
    /\ depths = get_app_method_depths(1, <<>>)
    /\ ExpanderInit
    /\ generator = 0

\* current_interval = get_interval(app_date, ag_practices) for the next date of the year
Classify ==
    /\ pc = "classify"
    /\ app_date < YearDays
    /\ app_date' = app_date + 1
    /\ appdate_interval' = get_interval(app_date + 1, ag_practices)
    /\ UNCHANGED <<ag_practices, settings, potential_app_dates, potential_idx, loop_count,
                   count, applications, tags, start_date, rate_id, app_rate, valid_app_rate,
                   valid_start_date, valid_next_date, reverse_assigning, pc, run_no,
                   first_run_in_huc, store_all_runs, error_max_amt, storage_table,
                   expander, generator>>

ClassifySpec == ClassifyInit /\ [][Classify]_vars

----------------------------------------------------------------------------
(* meets_instruction_constraints over the dates of the year, for a tier    *)
(* with a single-anchor instruction: prefix Y or N, anchor E or H, sign +   *)
(* or -, a day count of InstructionDays; emergence and harvest are such     *)
(* that every window stays inside the year.                                *)

InstructionDays == {0, 1, 30}

InstructInit ==
    /\ \E e \in {40, 121}, b \in {"Y", "N"}, ev \in {"E", "H"}, op \in {"+", "-"},
          days \in InstructionDays :
          ag_practices = Label(e, 244, 3, 6000, Inf, Inf, Inf, Inf, 0,
                               Rate(2000, 3, 7, 7, Instr(b, ev, op, days)), NoRate)
    /\ settings = Sequential
    /\ potential_app_dates = get_all_potential_app_dates(Sequential)
    /\ count = [r \in rows |-> [num_apps |-> 0, amt_applied |-> 0]]
    /\ applications = <<>>
    /\ tags = <<>>
    /\ loop_count = 0
    /\ potential_idx = 1
    /\ start_date = 0
    /\ app_date = 1
    /\ appdate_interval = NA
    /\ rate_id = "Rate1"
    /\ app_rate = 0
    /\ valid_app_rate = FALSE
    /\ valid_start_date = meets_instruction_constraints(1, ag_practices, "Rate1")
    /\ valid_next_date = PyTrue
    /\ reverse_assigning = PyFalse
    /\ pc = "instruct"
    /\ run_no = 0
    /\ first_run_in_huc = TRUE
    /\ store_all_runs = <<>>
    /\ error_max_amt = <<>>
    /\ storage_table = <<>>
    /\ scenario_files = <<TRUE>>
    /\ bin_to_landsape_params_lookup_table = <<TRUE>>
    /\ drift_reduction_table = <<[d \in 1..NumCombos |-> TRUE]>>
    /\ transport_mechanisms = [d \in 1..NumCombos |-> get_transport_mechanisms(1, "A", FALSE)]
    /\ depths = get_app_method_depths(1, <<>>)
    /\ ExpanderInit
    /\ generator = 0

\* meets_instruction_constraints(app_date, ag_practices, rate_id) for the next date of the year
Instruct ==
    /\ pc = "instruct"
    /\ app_date < YearDays
    /\ app_date' = app_date + 1
    /\ valid_start_date' = meets_instruction_constraints(app_date + 1, ag_practices, rate_id)
    /\ UNCHANGED <<ag_practices, settings, potential_app_dates, potential_idx, loop_count,
                   count, applications, tags, start_date, appdate_interval, rate_id, app_rate,
                   valid_app_rate, valid_next_date, reverse_assigning, pc, run_no,
                   first_run_in_huc, store_all_runs, error_max_amt, storage_table, expander,
                   generator>>

InstructSpec == InstructInit /\ [][Instruct]_vars

----------------------------------------------------------------------------
(* The generation over HUCs, bins and distances of which some have no      *)
(* scenario file, no landscape parameters or no drift entry: one label with *)
(* a single application per year, NumTableRows HUCs, bins and distances,    *)
(* and at most one missing entry per table.                                *)

NumTableRows == 2

\* per key 1..n whether it is present, with at most one key missing
Presence(n) == {[k \in 1..n |-> k # m] : m \in 0..n}

\* per bin and distance whether the drift entry is present, with at most one entry missing
DriftPresence(n) ==
    {[b \in 1..n |-> [d \in 1..n |-> <<b, d>> # m]] : m \in {<<0, 0>>} \cup ((1..n) \X (1..n))}

\* the application method and drift profile of the label: foliar with a drift only run at
\* the first distance, foliar without drift, and a soil method with two depths
Methods ==
    {[application_method |-> 2, drift_profile |-> "A"],
     [application_method |-> 2, drift_profile |-> "G-NODRIFT"],
     [application_method |-> 3, drift_profile |-> "A"]}

ExpandInit ==
    /\ ag_practices = Label(121, 244, 1, 5000, Inf, Inf, Inf, Inf, 0,
                            Rate(2000, 1, 7, 7, NoInstructions), NoRate)
    /\ settings = Sequential
    /\ potential_app_dates = get_all_potential_app_dates(Sequential)
    /\ count = [r \in rows |-> [num_apps |-> 0, amt_applied |-> 0]]
    /\ applications = <<>>
    /\ tags = <<>>
    /\ loop_count = 0
    /\ potential_idx = 1
    /\ start_date = 0
    /\ app_date = 0
    /\ appdate_interval = NA
    /\ rate_id = NA
    /\ app_rate = 0
    /\ valid_app_rate = FALSE
    /\ valid_start_date = FALSE
    /\ valid_next_date = PyTrue
    /\ reverse_assigning = PyFalse
    /\ pc = "huc"
    /\ run_no = 0
    /\ first_run_in_huc = TRUE
    /\ store_all_runs = <<>>
    /\ error_max_amt = <<>>
    /\ storage_table = <<>>
    /\ scenario_files \in Presence(NumTableRows)
    /\ bin_to_landsape_params_lookup_table \in Presence(NumTableRows)
    /\ drift_reduction_table \in DriftPresence(NumTableRows)
    /\ \E m \in Methods :
          /\ transport_mechanisms =
                [d \in 1..NumTableRows |->
                    get_transport_mechanisms(m.application_method, m.drift_profile, d = 1)]
          /\ depths = get_app_method_depths(m.application_method, <<"2", "4">>)
    /\ ExpanderInit
    /\ generator = 0

\* generate_batch_file_from_scratch alone, up to the written batch
ExpandNext ==
    \/ HucLoop
    \/ BinLoop
    \/ DistanceLoop
    \/ TransportLoop
    \/ DepthLoop
    \/ NextCandidate
    \/ Commit
    \/ ChainEnd
    \/ StoreRun

ExpandSpec == ExpandInit /\ [][ExpandNext]_vars

----------------------------------------------------------------------------
(* Properties.                                                             *)

\* the tier and the interval the k-th application of the current invocation was made under
TierOf(k) == tags[k][1]

IntervalOf(k) == tags[k][2]

\* the annual amount still available to the current invocation
AnnualHeadroom == ag_practices.MaxAnnAmt - count["Total"].amt_applied

\* C1: at every point of a scheduler run the ledger's Total.num_apps is at most
\* MaxAnnNumApps and Total.amt_applied is at most MaxAnnAmt plus the commit tolerance
C1_AnnualCaps ==
    /\ count["Total"].num_apps <= ag_practices.MaxAnnNumApps
    /\ count["Total"].amt_applied <= ag_practices.MaxAnnAmt + AmtTol

\* a valid next application with a positive rate waits while the annual number of
\* applications is used up
C1_Witness ==
    /\ pc = "while"
    /\ valid_start_date /\ valid_app_rate /\ valid_next_date = PyTrue /\ app_rate > 0
    /\ count["Total"].num_apps = ag_practices.MaxAnnNumApps
    /\ count[rate_id].num_apps < ag_practices.rates[rate_id].MaxNumApps

\* C2 as stated: two applications of one run under the same tier are apart by at least
\* the tier's MRI for the interval of each of the two
C2_PairwiseMRI ==
    \A i, j \in 1..Len(applications) :
        (i # j /\ TierOf(i) = TierOf(j)) =>
            /\ Abs(applications[i][1] - applications[j][1])
                  >= ag_practices.rates[TierOf(i)].MRI[IntervalOf(i)]
            /\ Abs(applications[i][1] - applications[j][1])
                  >= ag_practices.rates[TierOf(j)].MRI[IntervalOf(j)]

\* C2: two applications of one run under the same tier are apart by at least the tier's
\* MRI for the interval of the one that was committed later
C2_LaterMRI ==
    \A i, j \in 1..Len(applications) :
        (i < j /\ TierOf(i) = TierOf(j)) =>
            Abs(applications[i][1] - applications[j][1])
                >= ag_practices.rates[TierOf(j)].MRI[IntervalOf(j)]

\* two applications of one tier in different intervals whose MRIs differ
C2_Witness ==
    \E i, j \in 1..Len(applications) :
        /\ i < j
        /\ TierOf(i) = TierOf(j)
        /\ IntervalOf(i) # IntervalOf(j)
        /\ ag_practices.rates[TierOf(i)].MRI[IntervalOf(i)]
              > ag_practices.rates[TierOf(j)].MRI[IntervalOf(j)]

\* C3: every check of the QC record of every row the scheduler produced is True
C3_RoundTrip ==
    \A k \in 1..Len(storage_table) :
        /\ storage_table[k].Check_Ann_NumApps_NotExceeded
        /\ storage_table[k].Check_Ann_Amt_NotExceeded
        /\ storage_table[k].Check_PreE_NumApps_NotExceeded
        /\ storage_table[k].Check_PreE_Amt_NotExceeded
        /\ storage_table[k].Check_PostE_NumApps_NotExceeded
        /\ storage_table[k].Check_PostE_Amt_NotExceeded
        /\ storage_table[k].Check_MRI_NotWithin
        /\ storage_table[k].Check_NoDuplicate_AppDates
        /\ storage_table[k].Check_PreHarvInt_NotWithin
        /\ storage_table[k].Check_NumAppsField_IsCorrect

\* a state of a run that committed nothing and whose label leaves applications open
NothingCommitted ==
    /\ applications = <<>>
    /\ \A r \in rows : count[r].num_apps = 0 /\ count[r].amt_applied = 0

C5_AtMost50 == count["Total"].num_apps <= 50

\* C6: within a run no ledger counter decreases, and the Total row is the sum of the
\* Rate1..Rate4 rows
C6_Ledger ==
    /\ [][(pc \in {"for", "while", "return"}) =>
            \A r \in rows : /\ count'[r].num_apps >= count[r].num_apps
                            /\ count'[r].amt_applied >= count[r].amt_applied]_vars
    /\ [](/\ count["Total"].num_apps =
               SumSeq([i \in 1..4 |-> count[RateIds[i]].num_apps])
          /\ count["Total"].amt_applied =
               SumSeq([i \in 1..4 |-> count[RateIds[i]].amt_applied]))

\* applications of two tiers have been committed in one run
C6_Witness ==
    /\ count["Rate1"].num_apps > 0
    /\ count["Rate2"].num_apps > 0
    /\ count["Total"].amt_applied > count["Rate1"].amt_applied

\* C7: an invocation starts with a zero ledger and an empty application list, the label
\* record is never changed, and the row of every combination carries the application list
\* of the combination that was scheduled first, from the initial state
C7_Isolation ==
    /\ [](\A k \in 1..Len(store_all_runs) :
             /\ store_all_runs[k].NumberofApplications = store_all_runs[1].NumberofApplications
             /\ store_all_runs[k].Day = store_all_runs[1].Day
             /\ store_all_runs[k].Month = store_all_runs[1].Month
             /\ store_all_runs[k].AppRate = store_all_runs[1].AppRate)
    /\ []((pc = "for" /\ loop_count = 0 /\ potential_idx = 1) =>
             /\ applications = <<>>
             /\ \A r \in rows : count[r].num_apps = 0 /\ count[r].amt_applied = 0)
    /\ [][ag_practices' = ag_practices]_vars

\* a second combination has been stored after a first one that used up an annual cap
C7_Witness ==
    /\ Len(store_all_runs) >= 2
    /\ store_all_runs[1].NumberofApplications = ag_practices.MaxAnnNumApps
    /\ store_all_runs[2].NumberofApplications > 0

\* C8: the gate rejects every date d with Harvest - PHI < d <= Harvest, for every tier,
\* whatever the ledger, the earlier applications and the interval of the date
C8_GateRejectsPHI ==
    \A d \in 1..YearDays :
        (ag_practices.Harvest - ag_practices.PHI < d /\ d <= ag_practices.Harvest) =>
            \A i \in 1..4 :
                ~check_app_validity(d, get_interval(d, ag_practices), ag_practices, RateIds[i],
                                    applications, count)

\* the next application is due: its date passed the gate and the while condition holds
Due ==
    /\ pc = "while"
    /\ WhileCond(valid_start_date, valid_app_rate, valid_next_date, app_rate, rate_id, count,
                 ag_practices)

\* the next date passed the gate with a tier whose rate is larger than the positive
\* annual headroom
RateAboveHeadroom ==
    /\ pc = "while"
    /\ valid_start_date /\ valid_app_rate /\ valid_next_date = PyTrue
    /\ AnnualHeadroom > 0
    /\ ag_practices.rates[rate_id].MaxAppRate > AnnualHeadroom

\* the label of the worked examples: emergence 05-01, harvest 09-01, tier 1 at rate 2 with
\* at most 3 applications, post-emergence MRI 14, at most 3 applications a year
ExampleLabel(ann_amt) ==
    Label(DateOf(5, 1), DateOf(9, 1), 3, ann_amt, Inf, Inf, Inf, Inf, 0,
          Rate(2000, 3, Inf, 14, NoInstructions), NoRate)

\* C9 as stated: a tier rate above the positive annual headroom is committed at exactly
\* the headroom
C9_ClampsToAnnual ==
    RateAboveHeadroom => (app_rate = AnnualHeadroom /\ Due)

\* C9: a tier rate above the positive annual headroom is committed at exactly the headroom
\* when the interval's headroom is not smaller and the annual number of applications is
\* not used up; with MaxAnnAmt 5 the example label gives 05-01 @ 2, 05-15 @ 2, 05-29 @ 1
C9_ClampsWithinInterval ==
    /\ (/\ RateAboveHeadroom
        /\ ag_practices.MaxAmt[appdate_interval] - count[appdate_interval].amt_applied
              >= AnnualHeadroom
        /\ count["Total"].num_apps < ag_practices.MaxAnnNumApps)
           => (app_rate = AnnualHeadroom /\ Due)
    /\ (pc = "return" /\ ag_practices = ExampleLabel(5000) /\ settings = Sequential) =>
           /\ applications = <<<<DateOf(5, 1), 2000>>, <<DateOf(5, 15), 2000>>,
                               <<DateOf(5, 29), 1000>>>>
           /\ count["Total"].amt_applied = ag_practices.MaxAnnAmt

\* an application is due at the annual headroom, below the rate of its tier
C9_Witness ==
    /\ Due
    /\ RateAboveHeadroom
    /\ app_rate = AnnualHeadroom
    /\ app_rate < ag_practices.rates[rate_id].MaxAppRate

\* MaxRate mode, sequential candidates, tier 1 only, valid post-emergence only, no
\* instructions, PHI 0
PostOnlyRun ==
    /\ settings = Sequential
    /\ ag_practices.rates["Rate1"].MRI["PreEmergence"] = Inf
    /\ ag_practices.rates["Rate1"].MRI["PostEmergence"] # Inf
    /\ ag_practices.rates["Rate1"].Instructions = NoInstructions
    /\ ag_practices.rates["Rate2"] = NoRate
    /\ ag_practices.PHI = 0

\* the k-th application is on the k-th date of the chain that starts at emergence
OnChain(k) ==
    applications[k][1] =
        FoldYear(ag_practices.Emergence
                    + (k - 1) * ag_practices.rates["Rate1"].MRI["PostEmergence"])

\* the example of C10: 05-01, 05-15, 05-29 at rate 2, Total 3 and 6, oracle true
ExampleRun ==
    (pc = "return" /\ ag_practices = ExampleLabel(6000) /\ settings = Sequential) =>
        /\ applications = <<<<DateOf(5, 1), 2000>>, <<DateOf(5, 15), 2000>>,
                            <<DateOf(5, 29), 2000>>>>
        /\ count["Total"].num_apps = 3
        /\ count["Total"].amt_applied = 6000
        /\ no_more_apps_can_be_made(count, ag_practices)

\* C10 as stated: the applications are on emergence, emergence + m, emergence + 2m, ...
\* and the run returns with a tier or annual cap reached
C10_ChainFromEmergence ==
    /\ PostOnlyRun =>
          /\ \A k \in 1..Len(applications) : OnChain(k)
          /\ pc = "return" =>
                \/ count["Rate1"].num_apps = ag_practices.rates["Rate1"].MaxNumApps
                \/ count["Total"].num_apps = ag_practices.MaxAnnNumApps
                \/ count["Total"].amt_applied = ag_practices.MaxAnnAmt
    /\ ExampleRun

\* C10: when the harvest date is after the emergence date in the year, the applications
\* are on emergence, emergence + m, ... and the run returns with a tier, interval or
\* annual cap reached or with the next date of the chain after harvest
C10_ChainInSeason ==
    /\ (PostOnlyRun /\ ag_practices.Emergence < ag_practices.Harvest) =>
          /\ \A k \in 1..Len(applications) : OnChain(k)
          /\ pc = "return" =>
                \/ no_more_apps_can_be_made(count, ag_practices)
                \/ ag_practices.Emergence
                      + Len(applications) * ag_practices.rates["Rate1"].MRI["PostEmergence"]
                      > ag_practices.Harvest
    /\ ExampleRun

\* the example run has returned with its three applications
C10_Witness ==
    /\ pc = "return"
    /\ ag_practices = ExampleLabel(6000)
    /\ settings = Sequential
    /\ Len(applications) = 3

\* C11: get_interval returns exactly one of PreEmergence and PostEmergence; with harvest
\* after emergence it is PostEmergence iff emergence <= date <= harvest, otherwise it is
\* PreEmergence iff harvest < date < emergence
C11_IntervalTotal ==
    pc = "classify" =>
        /\ appdate_interval \in Intervals
        /\ IF ag_practices.Harvest > ag_practices.Emergence
           THEN appdate_interval = "PostEmergence"
                   <=> (ag_practices.Emergence <= app_date /\ app_date <= ag_practices.Harvest)
           ELSE appdate_interval = "PreEmergence"
                   <=> (ag_practices.Harvest < app_date /\ app_date < ag_practices.Emergence)

\* harvest and emergence on the same day: that day is classified post-emergence
C11_Witness ==
    /\ pc = "classify"
    /\ ag_practices.Harvest = ag_practices.Emergence
    /\ ag_practices.Emergence = DateOf(5, 1)
    /\ app_date = ag_practices.Emergence
    /\ appdate_interval = "PostEmergence"

\* C12: when the validation is over, every run of the batch has exactly one record, with
\* its run name and a boolean for every check
C12_OneRecordPerRun ==
    pc \in {"done", "exit"} =>
        /\ Len(storage_table) = Len(store_all_runs)
        /\ \A k \in 1..Len(storage_table) :
              /\ storage_table[k].RunName = store_all_runs[k].RunName
              /\ \A f \in DOMAIN storage_table[k] \ {"RunName"} :
                    storage_table[k][f] \in BOOLEAN

\* C13: every stored run whose total applied amount ends more than 0.01 short of the label's
\* annual maximum amount has its name among the max-amount warnings, whether it is the first
\* combination of its HUC or a later one
C13_EveryShortRunWarned ==
    \A k \in 1..Len(store_all_runs) :
        SumSeq(store_all_runs[k].AppRate) + WarnTol < ag_practices.MaxAnnAmt
            => InSeq(store_all_runs[k].RunName, error_max_amt)

\* the combinations of HUC, bin and distance of the generation
Combinations ==
    {c \in (1..Len(scenario_files)) \X (1..Len(bin_to_landsape_params_lookup_table))
              \X (1..Len(drift_reduction_table[1])) : TRUE}

\* the combination has a row in the batch
HasBatchRow(c) ==
    \E k \in 1..Len(store_all_runs) :
        /\ store_all_runs[k].HUC2 = c[1]
        /\ store_all_runs[k].AquaticBin = c[2]
        /\ store_all_runs[k].Distance = c[3]

\* C14: when the generation is over, every combination that was skipped for a missing
\* scenario file, bin entry or drift entry is identified by a tag in the list of skips that
\* is reported at the end
C14_SkipsTaggedForReport ==
    pc = "qc" =>
        \A c \in Combinations : ~HasBatchRow(c) => InSeq(c[1], error_scn_file_notexist)

\* the MRI of the tier and interval of the application that is being committed
CommittedMRI == ag_practices.rates[rate_id].MRI[appdate_interval]

\* a step of the while loop that commits an application and leaves the chain in reverse mode
ReverseStep ==
    /\ pc = "while"
    /\ Len(applications') = Len(applications) + 1
    /\ reverse_assigning' = PyTrue

\* C15: when a chain in forward mode turns to reverse mode, the candidate proposed is the
\* first date of the chain minus the MRI of the application just committed (taken within the
\* reference year), not that application's date minus the MRI; each later reverse candidate
\* is the date just committed minus the MRI
C15_ReverseFromChainStart ==
    [][ReverseStep =>
          app_date' = FoldYear((IF reverse_assigning = PyTrue THEN app_date ELSE start_date)
                                  - CommittedMRI)]_vars

\* a chain of at least two forward applications has turned, and its reverse candidate lies
\* before its first date
C15_Witness ==
    /\ pc = "while"
    /\ reverse_assigning = PyTrue
    /\ Len(applications) >= 2
    /\ applications[Len(applications)][1] > start_date
    /\ applications[Len(applications) - 1][1] >= start_date
    /\ app_date = start_date - ag_practices.rates[TierOf(Len(tags))].MRI[IntervalOf(Len(tags))]

\* a step of the while loop that commits an application of a chain in forward mode
ForwardCommit ==
    /\ pc = "while"
    /\ Len(applications') = Len(applications) + 1
    /\ reverse_assigning = PyFalse

\* C16: after an application is committed in forward mode, either the forward candidate is
\* the next one to commit or the chain has switched to reverse mode and holds the reverse
\* candidate, whether the forward candidate failed for want of a tier or at the gate
C16_ReverseWheneverForwardFails ==
    [][ForwardCommit =>
          \/ reverse_assigning' = PyFalse /\ valid_app_rate' /\ valid_next_date' = PyTrue
          \/ reverse_assigning' = PyTrue]_vars

\* C17: while a chain is in reverse mode every step of its while loop leaves it in reverse
\* mode and every candidate it computes is the date just committed minus the MRI; the flag
\* is raised only inside a chain and goes back to forward only when the next candidate of
\* the stream (or the next run) opens a new chain
C17_ReverseSticks ==
    /\ [][(reverse_assigning = PyTrue /\ pc = "while") =>
             /\ reverse_assigning' = PyTrue
             /\ Len(applications') # Len(applications) =>
                   app_date' = FoldYear(app_date - CommittedMRI)]_vars
    /\ [][(reverse_assigning = PyTrue /\ reverse_assigning' # PyTrue) =>
             /\ reverse_assigning' = PyFalse
             /\ pc \in {"for", "depth"}
             /\ pc' \in {"for", "while", "return"}]_vars
    /\ [][(reverse_assigning # PyTrue /\ reverse_assigning' = PyTrue) => pc = "while"]_vars

\* a chain has committed two applications in reverse mode, one MRI before the other, and
\* holds a third reverse candidate
C17_Witness ==
    /\ pc = "while"
    /\ reverse_assigning = PyTrue
    /\ Len(applications) >= 3
    /\ applications[Len(applications) - 1][1] < start_date
    /\ applications[Len(applications)][1] =
          applications[Len(applications) - 1][1]
             - ag_practices.rates[TierOf(Len(tags) - 1)].MRI[IntervalOf(Len(tags) - 1)]
    /\ app_date < applications[Len(applications)][1]

\* C18: in every state of a run the ledger of each interval is within the interval's
\* maximum number of applications and maximum amount, and the ledger of each tier is within
\* the tier's maximum number of applications (an unspecified limit is unlimited)
C18_IntervalAndTierCaps ==
    /\ \A iv \in Intervals :
          /\ count[iv].num_apps <= ag_practices.MaxNumApps[iv]
          /\ count[iv].amt_applied <= ag_practices.MaxAmt[iv]
    /\ \A i \in 1..4 :
          count[RateIds[i]].num_apps <= ag_practices.rates[RateIds[i]].MaxNumApps

\* an interval has reached its specified number of applications or its specified amount
\* while the annual limits still leave room, and the run went on to commit elsewhere
C18_Witness ==
    \E iv \in Intervals :
        /\ \/ count[iv].num_apps = ag_practices.MaxNumApps[iv]
           \/ count[iv].amt_applied = ag_practices.MaxAmt[iv]
        /\ count[iv].num_apps > 0
        /\ count["Total"].num_apps > count[iv].num_apps
        /\ count["Total"].num_apps < ag_practices.MaxAnnNumApps
        /\ count["Total"].amt_applied < ag_practices.MaxAnnAmt

\* C19: every application of a run lies at least the MRI of its own tier and interval away
\* from every application committed before it, whatever tier and interval those were made
\* under; so with every MRI at least 1 no two applications share a date
C19_OwnMRIFromAllEarlier ==
    \A i, j \in 1..Len(applications) :
        i < j =>
            /\ Abs(applications[i][1] - applications[j][1])
                  >= ag_practices.rates[TierOf(j)].MRI[IntervalOf(j)]
            /\ ag_practices.rates[TierOf(j)].MRI[IntervalOf(j)] >= 1
                  => applications[i][1] # applications[j][1]

\* an application was committed under another tier than an earlier one and on a date before
\* it, by a reverse step or at the start of a later chain
C19_Witness ==
    \E i, j \in 1..Len(applications) :
        /\ i < j
        /\ TierOf(i) # TierOf(j)
        /\ applications[j][1] < applications[i][1]
        /\ ag_practices.rates[TierOf(j)].MRI[IntervalOf(j)] >= 1

\* C20: every application of a run, under either date prioritization, has a positive rate
\* not above the maximum application rate of its tier, was committed in the interval of its
\* date, which is one of its tier's valid intervals, and lies on a date that its tier's
\* instructions admit
C20_TierAdmitsApplication ==
    \A k \in 1..Len(applications) :
        /\ applications[k][2] > 0
        /\ applications[k][2] <= ag_practices.rates[TierOf(k)].MaxAppRate
        /\ IntervalOf(k) = get_interval(applications[k][1], ag_practices)
        /\ InSeq(IntervalOf(k), ValidIntervals(ag_practices, TierOf(k)))
        /\ meets_instruction_constraints(applications[k][1], ag_practices, TierOf(k))

\* under "Max App. Rate" an application was committed for a tier that has instructions, and
\* one for a tier that is valid in a single interval
C20_Witness ==
    /\ settings.DATE_PRIORITIZATION = "Max App. Rate"
    /\ \E k \in 1..Len(applications) :
          ag_practices.rates[TierOf(k)].Instructions.form # NA
    /\ \E k \in 1..Len(applications) :
          Len(ValidIntervals(ag_practices, TierOf(k))) = 1

\* the intervals for which the tier has an MRI
TierIntervals(i) == {iv \in Intervals : ag_practices.rates[RateIds[i]].MRI[iv] # Inf}

\* the tier exists, has applications left, and is valid in both intervals or in one interval
\* whose number of applications and amount are both below their limits
Qualifies(i) ==
    /\ ag_practices.rates[RateIds[i]].MaxAppRate # Inf
    /\ count[RateIds[i]].num_apps < ag_practices.rates[RateIds[i]].MaxNumApps
    /\ \/ Cardinality(TierIntervals(i)) = 2
       \/ /\ Cardinality(TierIntervals(i)) = 1
          /\ \A iv \in TierIntervals(i) :
                /\ count[iv].num_apps < ag_practices.MaxNumApps[iv]
                /\ count[iv].amt_applied < ag_practices.MaxAmt[iv]

\* the result for the lowest-numbered qualifying tier, or (no tier, 0, invalid)
LowestQualifying ==
    IF \E i \in 1..4 : Qualifies(i)
    THEN The({ <<RateIds[i], ag_practices.rates[RateIds[i]].MaxAppRate, TRUE>> :
               i \in {j \in 1..4 : Qualifies(j) /\ \A k \in 1..(j - 1) : ~Qualifies(k)} })
    ELSE <<NA, 0, FALSE>>

\* dates on which the result of get_rate is compared
SampleDates == {1, ag_practices.Emergence - 1, ag_practices.Emergence, ag_practices.Harvest, YearDays}

\* C21: under "Max App. Rate", at every ledger a run reaches, get_rate returns the
\* lowest-numbered qualifying tier with its maximum rate, or (no tier, 0, invalid) when none
\* qualifies, whatever date and interval it is asked for
C21_MaxRateSelection ==
    settings.DATE_PRIORITIZATION = "Max App. Rate" =>
        \A d \in SampleDates, iv \in Intervals :
            get_rate(ag_practices, count, iv, settings, d) = LowestQualifying

\* under "Max App. Rate" a run has skipped a tier that still has applications left, because
\* its single interval is at a limit, and holds a later tier
C21_Witness ==
    /\ settings.DATE_PRIORITIZATION = "Max App. Rate"
    /\ pc = "while"
    /\ \E i \in 1..4 :
          /\ ag_practices.rates[RateIds[i]].MaxAppRate # Inf
          /\ count[RateIds[i]].num_apps < ag_practices.rates[RateIds[i]].MaxNumApps
          /\ ~Qualifies(i)
          /\ \E j \in (i + 1)..4 : rate_id = RateIds[j] /\ valid_app_rate

\* C22: under "Max App. Rate", in the step that commits an application under tier k, every
\* existing tier before k has reached its MaxNumApps or is valid in a single interval whose
\* number of applications or amount is at its limit
C22_HigherTiersExhausted ==
    [][(settings.DATE_PRIORITIZATION = "Max App. Rate" /\ pc = "while"
           /\ Len(applications') = Len(applications) + 1) =>
          \A k \in 1..4 :
              rate_id = RateIds[k] =>
                  \A j \in 1..(k - 1) :
                      ag_practices.rates[RateIds[j]].MaxAppRate # Inf =>
                          \/ count[RateIds[j]].num_apps
                                >= ag_practices.rates[RateIds[j]].MaxNumApps
                          \/ /\ Cardinality(TierIntervals(j)) = 1
                             /\ \E iv \in TierIntervals(j) :
                                   \/ count[iv].num_apps >= ag_practices.MaxNumApps[iv]
                                   \/ count[iv].amt_applied >= ag_practices.MaxAmt[iv]]_vars

\* under "Max App. Rate" an application of tier 2 has been committed while tier 1 had
\* applications of its own left
C22_Witness ==
    /\ settings.DATE_PRIORITIZATION = "Max App. Rate"
    /\ ag_practices.rates["Rate1"].MaxAppRate # Inf
    /\ count["Rate1"].num_apps < ag_practices.rates["Rate1"].MaxNumApps
    /\ \E k \in 1..Len(tags) : TierOf(k) = "Rate2"

\* the gate's verdict on the candidate the while loop holds
GateAccepts ==
    /\ pc = "while"
    /\ rate_id # NA
    /\ check_app_validity(app_date, appdate_interval, ag_practices, rate_id, applications, count)

\* C23 as stated: a candidate the gate accepts leaves room in its interval for the full rate
\* of the selected tier
C23_FullRateFits ==
    GateAccepts =>
        count[appdate_interval].amt_applied + ag_practices.rates[rate_id].MaxAppRate
            <= ag_practices.MaxAmt[appdate_interval] + AmtTol

\* C23: a candidate the gate accepts leaves at least 0.001 of the interval's maximum amount
\* unused; the full rate of the tier need not fit
C23_SomeHeadroom ==
    GateAccepts =>
        count[appdate_interval].amt_applied + AmtTol <= ag_practices.MaxAmt[appdate_interval]

\* the gate has accepted a candidate whose tier's full rate exceeds what the interval has left
C23_Witness ==
    /\ GateAccepts
    /\ ag_practices.MaxAmt[appdate_interval] # Inf
    /\ count[appdate_interval].amt_applied > 0
    /\ count[appdate_interval].amt_applied + ag_practices.rates[rate_id].MaxAppRate
          > ag_practices.MaxAmt[appdate_interval] + AmtTol

\* the date lies in (Harvest - PHI, Harvest]
InPhiWindow(d) == ag_practices.Harvest - ag_practices.PHI < d /\ d <= ag_practices.Harvest

ProposedRates ==
    {ag_practices.rates[RateIds[i]].MaxAppRate :
        i \in {j \in 1..4 : ag_practices.rates[RateIds[j]].MaxAppRate # Inf}}

\* C25: at every ledger of a run and for every rate a tier proposes, adjust_app_rate returns
\* no more than the proposed rate, and a positive result fits into the interval's remaining
\* amount and into the remaining annual amount; the rate of every committed application is
\* positive
C25_ClampedRate ==
    /\ \A p \in ProposedRates, iv \in Intervals :
          \E r \in {adjust_app_rate(p, iv, ag_practices, count)} :
              /\ r <= p
              /\ r > 0 =>
                    /\ count[iv].amt_applied + r <= ag_practices.MaxAmt[iv]
                    /\ count["Total"].amt_applied + r <= ag_practices.MaxAnnAmt
    /\ \A k \in 1..Len(applications) : applications[k][2] > 0

\* an application is due at the interval's remaining amount, below the rate of its tier and
\* below the remaining annual amount
C25_Witness ==
    /\ Due
    /\ app_rate < ag_practices.rates[rate_id].MaxAppRate
    /\ app_rate = ag_practices.MaxAmt[appdate_interval] - count[appdate_interval].amt_applied
    /\ app_rate < AnnualHeadroom

\* a run of a label with tier 1 that has committed nothing
EmptyRun ==
    /\ pc \in {"for", "while", "return"}
    /\ applications = <<>>
    /\ RateExists(ag_practices, "Rate1")

\* C26 as stated: a run with tier 1 in which no candidate was ever valid returns with the
\* all-tiers-exhausted test of the termination check true
C26_OracleEndsEmptyRun ==
    (EmptyRun /\ pc = "return") => all_exhausted_rates(count, ag_practices)

\* C26: in a run with tier 1 in which no candidate was ever valid the all-tiers-exhausted
\* test is false in every state, the return included; the run returns when the 5th pass over
\* the stream ends, by the count of passes
C26_PassCountEndsEmptyRun ==
    EmptyRun =>
        /\ ~all_exhausted_rates(count, ag_practices)
        /\ pc = "return" =>
              /\ loop_count = MaxLoops
              /\ ~no_more_apps_can_be_made(count, ag_practices)

\* a run whose tier 1 has instructions has returned after the 5th pass with nothing
\* committed and a tier that is not exhausted
C26_Witness ==
    /\ EmptyRun
    /\ pc = "return"
    /\ loop_count = MaxLoops
    /\ ag_practices.rates["Rate1"].Instructions.form # NA
    /\ count["Rate1"].num_apps < ag_practices.rates["Rate1"].MaxNumApps
    /\ potential_idx > Len(potential_app_dates)

\* the application events of a batch row, each rate with the date of its own column
RowEvents(run) ==
    [k \in 1..Len(run.Day) |-> <<DateOf(run.Month[k], run.Day[k]), run.AppRate[k]>>]

\* C27: for every validated row, in whatever order its applications are stored, the
\* validator's count and amount of each interval are the number and the summed rates of
\* the applications whose own date lies in the interval
C27_RatesStayPaired ==
    \A n \in 1..Len(storage_table) :
        \E pairs \in {QcPairs(QcAppDates(store_all_runs[n]), store_all_runs[n].AppRate)} :
        \E events \in {RowEvents(store_all_runs[n])} :
            \A iv \in Intervals :
                /\ QcNumApps(pairs, iv, ag_practices.Emergence, ag_practices.Harvest)
                      = QcNumApps(events, iv, ag_practices.Emergence, ag_practices.Harvest)
                /\ QcSumAppRates(pairs, iv, ag_practices.Emergence, ag_practices.Harvest)
                      = QcSumAppRates(events, iv, ag_practices.Emergence, ag_practices.Harvest)

\* the instruction of tier 1 and the date it refers to
Tier1Instruction == ag_practices.rates["Rate1"].Instructions

AnchorDate == IF Tier1Instruction.event = "E" THEN ag_practices.Emergence ELSE ag_practices.Harvest

\* the date lies in [anchor, anchor + days] for sign + and in [anchor - days, anchor] for sign -
InAnchorWindow(d) ==
    IF Tier1Instruction.op = "+"
    THEN AnchorDate <= d /\ d <= AnchorDate + Tier1Instruction.days
    ELSE AnchorDate - Tier1Instruction.days <= d /\ d <= AnchorDate

\* C28: for a single-anchor instruction with a day count of 0 or more whose window stays
\* inside the year, the instruction check admits a date under prefix Y exactly when the date
\* lies in the window, bounds included, and under prefix N exactly when it lies outside
C28_WindowAdmits ==
    pc = "instruct" =>
        valid_start_date =
            (IF Tier1Instruction.bool_switch = "Y"
             THEN InAnchorWindow(app_date) ELSE ~InAnchorWindow(app_date))

-----------------------------------------------------------------------------
(* One invocation and one row per combination.                             *)

\* the combinations of HUC, bin, distance, transport mechanism and depth that no missing
\* scenario file, bin or drift entry passes over, by their positions in the five loops
NonSkipped ==
    {c \in (1..Len(scenario_files)) \X (1..Len(bin_to_landsape_params_lookup_table))
           \X (1..Len(transport_mechanisms)) \X (1..2) \X (1..2) :
        /\ scenario_files[c[1]]
        /\ bin_to_landsape_params_lookup_table[c[2]]
        /\ drift_reduction_table[c[2]][c[3]]
        /\ c[4] <= Len(transport_mechanisms[c[3]])
        /\ c[5] <= Len(depths_used(transport_mechanisms[c[3]][c[4]], depths))}

\* combination a comes before combination b in the nesting HUC, bin, distance, transport
\* mechanism, depth
NestedBefore(a, b) == \E i \in 1..5 : a[i] < b[i] /\ \A j \in 1..(i - 1) : a[j] = b[j]

\* the row was stored for the combination c
RowOf(row, c) ==
    /\ row.HUC2 = c[1]
    /\ row.AquaticBin = c[2]
    /\ row.Distance = c[3]
    /\ row.TransportMech = transport_mechanisms[c[3]][c[4]]
    /\ row.Depth = depths_used(transport_mechanisms[c[3]][c[4]], depths)[c[5]]

\* C29: for one label record the scheduler is invoked exactly once per combination that is
\* not skipped and one row is appended per invocation, in the nested order HUC, bin,
\* distance, transport mechanism, depth; a stored row is never modified afterwards, and its
\* NumberofApplications is the length of the application list the scheduler returned
C29_OneRowPerInvocation ==
    /\ [](/\ \A k \in 1..Len(diagnostics) : diagnostics[k] \in NonSkipped
          /\ \A k \in 1..(Len(diagnostics) - 1) : NestedBefore(diagnostics[k], diagnostics[k + 1])
          /\ pc = "qc" => \A c \in NonSkipped : \E k \in 1..Len(diagnostics) : diagnostics[k] = c
          /\ Len(diagnostics) =
                Len(store_all_runs) + (IF pc \in {"for", "while", "return"} THEN 1 ELSE 0)
          /\ \A k \in 1..Len(store_all_runs) : RowOf(store_all_runs[k], diagnostics[k]))
    /\ [][/\ \A k \in 1..Len(store_all_runs) :
                k <= Len(store_all_runs') /\ store_all_runs'[k] = store_all_runs[k]
          /\ Len(store_all_runs') <= Len(store_all_runs) + 1
          /\ pc = "return" =>
                /\ Len(store_all_runs') = Len(store_all_runs) + 1
                /\ store_all_runs'[Len(store_all_runs')].NumberofApplications
                      = Len(applications)
                /\ Len(store_all_runs'[Len(store_all_runs')].Day) = Len(applications)]_vars

\* the batch of a label is written with a drift only row and a runoff and drift row for one
\* distance, after a bin or a drift entry was passed over
C29_Witness ==
    /\ pc = "qc"
    /\ warnings # <<>>
    /\ \E j, k \in 1..Len(store_all_runs) :
          /\ j < k
          /\ store_all_runs[j].Distance = store_all_runs[k].Distance
          /\ store_all_runs[j].TransportMech = "D"
          /\ store_all_runs[k].TransportMech = "RD"
          /\ store_all_runs[k].NumberofApplications = 1

-----------------------------------------------------------------------------
(* Random start dates.                                                     *)

\* RANDOM_SEED as typed into the form: blank, or one of two seeds
Seeds == {"", "1", "2"}

\* a label with one application before emergence and one after it, scheduled for each
\* distance with RANDOM_START_DATES on, over the whole year, over February and January, and
\* over January alone; without a seed the generator starts in a state taken from the system
RandomInit ==
    /\ ag_practices = Label(40, 244, 2, 4000, 1, Inf, Inf, Inf, 0,
                            Rate(2000, 2, 7, 7, NoInstructions), NoRate)
    /\ \E a \in Seeds, cfg \in {Sequential, Wettest("Max App. Rate", <<2, 1>>),
                               Wettest("Max App. Rate", <<1>>)} :
          /\ settings = [cfg EXCEPT !.RANDOM_START_DATES = TRUE, !.RANDOM_SEED = a]
          /\ potential_app_dates = get_all_potential_app_dates(cfg)
    /\ generator \in 0..(RngMod - 1)
    /\ count = [r \in rows |-> [num_apps |-> 0, amt_applied |-> 0]]
    /\ applications = <<>>
    /\ tags = <<>>
    /\ loop_count = 0
    /\ potential_idx = 1
    /\ start_date = 0
    /\ app_date = 0
    /\ appdate_interval = NA
    /\ rate_id = NA
    /\ app_rate = 0
    /\ valid_app_rate = FALSE
    /\ valid_start_date = FALSE
    /\ valid_next_date = PyTrue
    /\ reverse_assigning = PyFalse
    /\ pc = "huc"
    /\ run_no = 0
    /\ first_run_in_huc = TRUE
    /\ store_all_runs = <<>>
    /\ error_max_amt = <<>>
    /\ storage_table = <<>>
    /\ scenario_files = <<TRUE>>
    /\ bin_to_landsape_params_lookup_table = <<TRUE>>
    /\ drift_reduction_table = <<[d \in 1..NumCombos |-> TRUE]>>
    /\ transport_mechanisms = [d \in 1..NumCombos |-> get_transport_mechanisms(1, "A", FALSE)]
    /\ depths = get_app_method_depths(1, <<>>)
    /\ ExpanderInit

RandomNext ==
    \/ HucLoop
    \/ BinLoop
    \/ DistanceLoop
    \/ TransportLoop
    \/ DepthLoop
    \/ NextCandidate
    \/ Commit
    \/ ChainEnd
    \/ PassEnd
    \/ StoreRun

RandomSpec == RandomInit /\ [][RandomNext]_vars

\* the two rows hold the same application list
SameList(a, b) == a.Day = b.Day /\ a.Month = b.Month /\ a.AppRate = b.AppRate

\* C30: with random start dates on and a seed supplied, the application list of a
\* combination is determined by the seed, the label, the scenario dates and the candidate
\* stream: whatever state the generator was in and however many combinations were scheduled
\* before, scheduling the combination again gives the same list
C30_SeededListsAgree ==
    (settings.RANDOM_START_DATES /\ settings.RANDOM_SEED # "") =>
        \A j, k \in 1..Len(store_all_runs) : SameList(store_all_runs[j], store_all_runs[k])

\* with a seed, every combination was scheduled and the list starts on a drawn day
C30_Witness ==
    /\ pc = "qc"
    /\ settings.RANDOM_SEED # ""
    /\ Len(store_all_runs) = NumCombos
    /\ store_all_runs[NumCombos].NumberofApplications >= 1
    /\ store_all_runs[NumCombos].Day[1] # 1

====
